---- MODULE Spec2Model ----
(***************************************************************************)
(* Model of the assessment job coordinator `run` and of the worker task    *)
(* `scan_task` of openbq/app.py.                                           *)
(*                                                                         *)
(* The coordinator is one thread of control whose position is `pc`; the    *)
(* worker pool (ray) runs the submitted tasks in parallel.  A task is      *)
(* identified by its submission index 1..submitted: under the per-file     *)
(* policy task i scores the i-th enumerated file, under the per-batch      *)
(* policy it scores the i-th batch folder.                                 *)
(***************************************************************************)
EXTENDS Integers, Sequences, FiniteSets, TLC

\* ---------------------------------------------------------------- bounds
MaxFiles == 11      \* most files found under the input folder
MaxLimit == 2       \* largest --limit tried (0 is "no limit")
MaxBatch == 3       \* largest --batch tried
MaxDeviant == 1     \* units 1..MaxDeviant may score other than plainly
NumWorkers == 2     \* tasks the pool runs at the same time

\* ------------------------------------------------------ program constants
eta_step == 10      \* ETA estimation interval (window of the tracker)

VARIABLES
    policy,         \* "file" | "batch": which branch of line 145 the mode/engine selects
    input_exists,   \* os.path.exists(input_folder)
    avail,          \* number of files iter_matching_files yields
    limit,          \* --limit
    batch,          \* --batch; the coordinator overwrites it when it clips
    pc,             \* position of the coordinator in run()
    file_total, file_count, failed,
    failed_count,   \* Unbound until the walrus of line 271 binds it
    input_folders,  \* batch folders not yet taken by the for loop (their sizes)
    submitted,      \* number of scan_task.remote calls made so far
    tasks, ready, not_ready,
    bar,            \* the rich Progress task the coordinator currently updates
    status,         \* pool: task -> "pending" | "returned" | "raised"
    retval,         \* pool: task -> what the task returned
    rows,           \* rows of the output table
    log,            \* entries of the log store
    table_state,    \* "none" | "open" | "seamed"
    log_state,      \* "none" | "open" | "sealed"
    temp_folder,    \* "none" | "present" | "removed"
    output_dir, report_dir, outlier_filter,
    metadata,       \* the metadata block written into the sealed log
    summary,        \* the summary printed at the end
    cause           \* why run() ended without a summary

vars == << policy, input_exists, avail, limit, batch, pc,
           file_total, file_count, failed, failed_count, input_folders,
           submitted, tasks, ready, not_ready, bar, status, retval, rows, log,
           table_state, log_state, temp_folder, output_dir, report_dir,
           outlier_filter, metadata, summary, cause >>

inputs == << policy, input_exists, avail, limit >>
counters == << file_total, file_count, failed, failed_count >>
lists == << tasks, ready, not_ready >>
pool == << submitted, status, retval >>
stores == << rows, log >>
artifacts == << table_state, log_state, temp_folder >>
finals == << output_dir, report_dir, outlier_filter, metadata, summary, cause >>

Unbound == -1
Null == "null"

\* ------------------------------------------------------------ rich.Progress
\* p.add_task(..., total=t)
AddTask(t) == [completed |-> 0, total |-> t, finished |-> 0 >= t]

\* p.update(task, advance=n): completed is not clamped; the task is marked
\* finished the first time completed >= total and stays finished
Advance(b, n) ==
    [completed |-> b.completed + n, total |-> b.total,
     finished |-> b.finished \/ b.completed + n >= b.total]

\* p.update(task, completed=c)
SetCompleted(b, c) ==
    [completed |-> c, total |-> b.total, finished |-> b.finished \/ c >= b.total]

\* ------------------------------------------------------- input partitioner
\* split_input_folder(input_folder, temp_folder, exts, batch_size, pattern,
\* limit): the matching files, cut off at the limit, regrouped into folders
\* of batch_size files; the last folder holds the remainder
RECURSIVE split_input_folder(_, _)
split_input_folder(n, batch_size) ==
    IF n <= 0 THEN << >>
    ELSE IF n <= batch_size THEN << n >>
    ELSE << batch_size >> \o split_input_folder(n - batch_size, batch_size)

\* ------------------------------------------------------------- the engine
\* What happens to one unit inside scan_task.  kind "raise": scan() raises
\* inside the try block (under the per-batch policy also: what it returns has
\* no .get) and the except branch handles it.  kind "malformed": an
\* exception is raised by the lines after the try block, which nothing
\* catches (per-file: scan() returned something that is not a dict; per-batch:
\* a dict without "results"; either: a path transform, write_log or write_csv
\* fails).  kind "ok": scan() returns records; each record is the list of the
\* keys of its diagnostic entries ("load image" is the key the finalizer
\* counts as a failure).  kind "hang": the call of scan() never returns.
\* The diagnostic lists the engine may attach to a record
SubLogs == {<< >>, << "load image" >>, << "other" >>, << "other", "load image" >>}

Plain == [kind |-> "ok", recs |-> << << >> >>]

FileOutcomes ==
    {[kind |-> "raise", recs |-> << >>], [kind |-> "malformed", recs |-> << >>],
     [kind |-> "hang", recs |-> << >>]}
    \cup {[kind |-> "ok", recs |-> << l >>] : l \in SubLogs}

\* The record lists the engine may return for a batch folder
BatchResults == {<< >>, << << >> >>, << << "other" >>, << >> >>}

BatchOutcomes ==
    {[kind |-> "raise", recs |-> << >>], [kind |-> "malformed", recs |-> << >>],
     [kind |-> "hang", recs |-> << >>]}
    \cup {[kind |-> "ok", recs |-> r] : r \in BatchResults}

Outcomes(pol, i) ==
    IF i > MaxDeviant THEN {Plain}
    ELSE IF pol = "batch" THEN BatchOutcomes ELSE FileOutcomes

\* ------------------------------------------------------------- scan_task
\* The entries scan_task writes to the log for unit i
TaskLog(pol, i, o) ==
    IF o.kind = "raise"
    THEN {[unit |-> i, key |-> "task error", rec |-> 0, n |-> 0]}
    ELSE IF o.kind \in {"malformed", "hang"} THEN {}
    ELSE IF pol = "batch"
    THEN {[unit |-> i, key |-> "logs", rec |-> r, n |-> 1] :
             r \in {x \in 1..Len(o.recs) : o.recs[x] # << >>}}
    ELSE {[unit |-> i, key |-> o.recs[1][j], rec |-> 1, n |-> j] :
             j \in 1..Len(o.recs[1])}

\* The rows scan_task appends to the table for unit i: the per-batch branch
\* applies fix_filepath and reconstruct_filepath, the per-file branch
\* reconstruct_filepath alone
TaskRows(pol, i, o) ==
    IF o.kind # "ok" THEN {}
    ELSE {[unit |-> i, rec |-> r, fixed |-> (pol = "batch"), reconstructed |-> TRUE] :
             r \in 1..Len(o.recs)}

\* How the pool sees the task end: an exception caught inside the task is a
\* normal return; a task whose scan() hangs never ends
TaskStatus(o) ==
    IF o.kind = "malformed" THEN "raised"
    ELSE IF o.kind = "hang" THEN "hung" ELSE "returned"

\* What ray.get yields for the task: None after the except branch, else the
\* list `results`
TaskReturn(o) ==
    IF o.kind = "raise" THEN "None"
    ELSE IF o.kind = "malformed" THEN "exception"
    ELSE IF o.kind = "hang" THEN "pending"
    ELSE IF Len(o.recs) = 0 THEN "empty" ELSE "records"

\* ------------------------------------------------------------- the stores
\* write_log(log_dir, entry) and write_csv(output_dir, row) while the stores
\* are open: an append, atomic with respect to the other tasks' appends
write_log(store, entries) == store \cup entries

write_csv(store, records) == store \cup records

\* ------------------------------------------------------------ worker pool
\* The pool starts tasks in submission order and runs NumWorkers at a time;
\* a hung task keeps its worker
Runnable(i) ==
    /\ i \in 1..submitted
    /\ status[i] = "pending"
    /\ Cardinality({j \in 1..(i - 1) : status[j] \in {"pending", "hung"}}) < NumWorkers

Done(S) == {t \in S : status[t] \in {"returned", "raised"}}

\* Mutant: a task's write replaces the table instead of appending to it
ScanTask_Overwrite(i) ==
    /\ Runnable(i)
    /\ \E o \in Outcomes(policy, i) :
          /\ log' = write_log(log, TaskLog(policy, i, o))
          /\ rows' = IF TaskRows(policy, i, o) = {} THEN rows
                     ELSE TaskRows(policy, i, o)
          /\ status' = [status EXCEPT ![i] = TaskStatus(o)]
          /\ retval' = [retval EXCEPT ![i] = TaskReturn(o)]
    /\ UNCHANGED << inputs, counters, lists, artifacts, finals, batch, pc,
                    input_folders, submitted, bar >>

ScanTask(i) ==
    /\ Runnable(i)
    /\ \E o \in Outcomes(policy, i) :
          /\ log' = write_log(log, TaskLog(policy, i, o))
          /\ rows' = write_csv(rows, TaskRows(policy, i, o))
          /\ status' = [status EXCEPT ![i] = TaskStatus(o)]
          /\ retval' = [retval EXCEPT ![i] = TaskReturn(o)]
    /\ UNCHANGED << inputs, counters, lists, artifacts, finals, batch, pc,
                    input_folders, submitted, bar >>

\* scan_task.remote(...): a new pending task
Remote(i) ==
    /\ submitted' = i
    /\ status' = [t \in 1..i |-> IF t = i THEN "pending" ELSE status[t]]
    /\ retval' = [t \in 1..i |-> IF t = i THEN "pending" ELSE retval[t]]

\* ------------------------------------------------------------------ run()
Init ==
    /\ policy \in {"file", "batch"}
    /\ input_exists \in BOOLEAN
    /\ avail \in IF input_exists THEN 0..MaxFiles ELSE {0}
    /\ limit \in 0..MaxLimit
    /\ batch \in IF policy = "batch" THEN 1..MaxBatch ELSE {MaxBatch}
    /\ pc = "start"
    /\ file_total = 0 /\ file_count = 0 /\ failed = 0
    /\ failed_count = Unbound
    /\ input_folders = << >>
    /\ submitted = 0
    /\ tasks = {} /\ ready = {} /\ not_ready = {}
    /\ bar = AddTask(1)
    /\ status = << >> /\ retval = << >>
    /\ rows = {} /\ log = {}
    /\ table_state = "none" /\ log_state = "none" /\ temp_folder = "none"
    /\ output_dir = "csv" /\ report_dir = "html" /\ outlier_filter = Null
    /\ metadata = [written |-> FALSE, processed |-> 0, failed |-> 0, log |-> 0]
    /\ summary = [emitted |-> FALSE, processed |-> 0, output |-> Null, report |-> Null]
    /\ cause = "none"

\* Mutant: the limit is echoed but never applied
ClampTotal_NoLimit(n, lim) == n

\* file_total after the limit is applied
ClampTotal(n, lim) == IF lim # 0 /\ lim < n THEN lim ELSE n

\* Mutant: an empty input is not checked for
CheckInput_NoEmptyCheck ==
    /\ pc = "start"
    /\ IF ~input_exists
       THEN /\ pc' = "returned" /\ cause' = "input directory not found"
            /\ UNCHANGED file_total
       ELSE /\ file_total' = ClampTotal(avail, limit)
            /\ pc' = "init" /\ UNCHANGED cause
    /\ UNCHANGED << inputs, file_count, failed, failed_count, lists, pool, stores,
                    artifacts, output_dir, report_dir, outlier_filter, metadata,
                    summary, batch, input_folders, bar >>

\* The input checks: a missing input folder or no matching file ends the job
CheckInput ==
    /\ pc = "start"
    /\ IF ~input_exists
       THEN /\ pc' = "returned" /\ cause' = "input directory not found"
            /\ UNCHANGED file_total
       ELSE /\ file_total' = ClampTotal(avail, limit)
            /\ IF file_total' = 0
               THEN pc' = "returned" /\ cause' = "no valid input"
               ELSE pc' = "init" /\ UNCHANGED cause
    /\ UNCHANGED << inputs, file_count, failed, failed_count, lists, pool, stores,
                    artifacts, output_dir, report_dir, outlier_filter, metadata,
                    summary, batch, input_folders, bar >>

\* write_csv(init), write_log(init), the counters, and the branch on the policy
InitOutput ==
    /\ pc = "init"
    /\ table_state' = "open" /\ log_state' = "open"
    /\ file_count' = 0 /\ failed' = 0 /\ tasks' = {}
    /\ pc' = IF policy = "batch" THEN "split" ELSE "send"
    /\ bar' = IF policy = "batch" THEN bar ELSE AddTask(file_total)
    /\ UNCHANGED << inputs, file_total, failed_count, ready, not_ready, pool,
                    stores, temp_folder, finals, batch, input_folders >>

\* ---- per-batch policy
SplitInput ==
    /\ pc = "split"
    /\ temp_folder' = "present"
    /\ input_folders' = split_input_folder(ClampTotal(avail, limit), batch)
    /\ bar' = AddTask(file_total)
    /\ pc' = "for_folder"
    /\ UNCHANGED << inputs, counters, lists, pool, stores, table_state,
                    log_state, finals, batch >>

\* Mutant: the next folder is submitted without waiting for the one in flight
SubmitFolder_NoBlock ==
    /\ pc \in {"for_folder", "wait_folder"}
    /\ input_folders # << >>
    /\ input_folders' = Tail(input_folders)
    /\ Remote(submitted + 1)
    /\ tasks' = tasks \cup {submitted + 1}
    /\ not_ready' = tasks'
    /\ pc' = "wait_folder"
    /\ UNCHANGED << inputs, counters, ready, stores, artifacts, finals, batch, bar >>

\* for folder in input_folders: submit the folder's task
SubmitFolder ==
    /\ pc = "for_folder"
    /\ input_folders # << >>
    /\ input_folders' = Tail(input_folders)
    /\ Remote(submitted + 1)
    /\ tasks' = tasks \cup {submitted + 1}
    /\ not_ready' = tasks'
    /\ pc' = "wait_folder"
    /\ UNCHANGED << inputs, counters, ready, stores, artifacts, finals, batch, bar >>

\* one turn of the while loop: ray.wait(tasks, timeout=0.1), then sleep
PollFolder ==
    /\ pc = "wait_folder"
    /\ ready' = Done(tasks)
    /\ not_ready' = tasks \ Done(tasks)
    /\ pc' = IF not_ready' = {} THEN "get_folder" ELSE "wait_folder"
    /\ UNCHANGED << inputs, counters, tasks, pool, stores, artifacts, finals,
                    batch, input_folders, bar >>

\* Mutant: the count is not clipped
ClipCount_NoClip(count, b, total) == count + b

\* file_count after a successful batch, clipped at file_total
ClipCount(count, b, total) == IF count + b > total THEN total ELSE count + b

\* Mutant: the last advance is a full batch
ClipBatch_Full(count, b, total) == b

\* batch after a successful batch: shrunk to what was left when the count is clipped
ClipBatch(count, b, total) == IF count + b > total THEN total - (count + b) + b ELSE b

\* if ray.get(ready)[0]: ... else: ...; tasks = []
GetFolder ==
    /\ pc = "get_folder"
    /\ \E t \in ready :
          IF status[t] = "raised"
          THEN /\ pc' = "raised" /\ cause' = "task exception in ray.get"
               /\ UNCHANGED << file_count, failed, batch, bar, tasks >>
          ELSE /\ IF retval[t] = "records"
                  THEN /\ file_count' = ClipCount(file_count, batch, file_total)
                       /\ batch' = ClipBatch(file_count, batch, file_total)
                       /\ bar' = Advance(bar, batch')
                       /\ UNCHANGED failed
                  ELSE /\ failed' = failed + batch
                       /\ UNCHANGED << file_count, batch, bar >>
               /\ tasks' = {}
               /\ pc' = "for_folder"
               /\ UNCHANGED cause
    /\ UNCHANGED << inputs, file_total, failed_count, ready, not_ready, pool,
                    stores, artifacts, output_dir, report_dir, outlier_filter,
                    metadata, summary, input_folders >>

\* shutil.rmtree(temp_folder), after the last folder
RemoveTemp ==
    /\ pc = "for_folder"
    /\ input_folders = << >>
    /\ temp_folder' = "removed"
    /\ pc' = "seal_log"
    /\ UNCHANGED << inputs, counters, lists, pool, stores, table_state,
                    log_state, finals, batch, input_folders, bar >>

\* ---- per-file policy
\* for path in file_globs: submit, count, advance, stop when the bar is full
SendTask ==
    /\ pc = "send"
    /\ IF submitted < avail
       THEN /\ Remote(submitted + 1)
            /\ tasks' = tasks \cup {submitted + 1}
            /\ file_count' = file_count + 1
            /\ bar' = Advance(bar, 1)
            /\ pc' = IF bar'.finished THEN "prime" ELSE "send"
       ELSE /\ pc' = "prime"
            /\ UNCHANGED << pool, tasks, file_count, bar >>
    /\ UNCHANGED << inputs, file_total, failed, failed_count, ready, not_ready,
                    stores, artifacts, finals, batch, input_folders >>

\* Mutant: the tracker's bar starts at the number of primed tasks
PrimeWait_Counted ==
    /\ pc = "prime"
    /\ \E r \in Done(tasks) :
          /\ ready' = {r}
          /\ not_ready' = tasks \ {r}
    /\ bar' = Advance(AddTask(file_total), 1)
    /\ pc' = "track"
    /\ UNCHANGED << inputs, counters, tasks, pool, stores, artifacts, finals,
                    batch, input_folders >>

\* ready, not_ready = ray.wait(tasks): blocks until one task is done, returns
\* one done task and all the others; then the tracker's bar is created
PrimeWait ==
    /\ pc = "prime"
    /\ \E r \in Done(tasks) :
          /\ ready' = {r}
          /\ not_ready' = tasks \ {r}
    /\ bar' = AddTask(file_total)
    /\ pc' = "track"
    /\ UNCHANGED << inputs, counters, tasks, pool, stores, artifacts, finals,
                    batch, input_folders >>

\* Mutant: the bar is set to the number of outstanding tasks
TrackTail_Outstanding ==
    /\ pc = "track"
    /\ ~bar.finished
    /\ Cardinality(not_ready) < eta_step
    /\ bar' = SetCompleted(bar, Cardinality(not_ready))
    /\ UNCHANGED << inputs, counters, lists, pool, stores, artifacts, finals,
                    batch, input_folders, pc >>

\* Mutant: the first branch is not taken when nothing is outstanding
TrackTail_NotEmpty ==
    /\ pc = "track"
    /\ ~bar.finished
    /\ Cardinality(not_ready) < eta_step /\ not_ready # {}
    /\ bar' = SetCompleted(bar, file_total)
    /\ UNCHANGED << inputs, counters, lists, pool, stores, artifacts, finals,
                    batch, input_folders, pc >>

\* while not p.finished, first branch: fewer than eta_step outstanding
TrackTail ==
    /\ pc = "track"
    /\ ~bar.finished
    /\ Cardinality(not_ready) < eta_step
    /\ bar' = SetCompleted(bar, file_total)
    /\ UNCHANGED << inputs, counters, lists, pool, stores, artifacts, finals,
                    batch, input_folders, pc >>

\* Mutant: the windowed wait returns after one completion
TrackWindow_OneReturn ==
    /\ pc = "track"
    /\ ~bar.finished
    /\ ~(Cardinality(not_ready) < eta_step)
    /\ \E r \in Done(not_ready) :
          /\ tasks' = not_ready
          /\ ready' = {r}
          /\ not_ready' = not_ready \ {r}
          /\ bar' = Advance(bar, 1)
    /\ UNCHANGED << inputs, counters, pool, stores, artifacts, finals, batch,
                    input_folders, pc >>

\* while not p.finished, second branch: tasks = not_ready, then
\* ray.wait(tasks, num_returns=eta_step) blocks until eta_step of them are
\* done and returns eta_step done ones and the rest
TrackWindow ==
    /\ pc = "track"
    /\ ~bar.finished
    /\ ~(Cardinality(not_ready) < eta_step)
    /\ \E R \in SUBSET Done(not_ready) :
          /\ Cardinality(R) = eta_step
          /\ tasks' = not_ready
          /\ ready' = R
          /\ not_ready' = not_ready \ R
          /\ bar' = Advance(bar, Cardinality(R))
    /\ UNCHANGED << inputs, counters, pool, stores, artifacts, finals, batch,
                    input_folders, pc >>

\* the loop ends when the bar is finished
TrackExit ==
    /\ pc = "track"
    /\ bar.finished
    /\ pc' = "get"
    /\ UNCHANGED << inputs, counters, lists, pool, stores, artifacts, finals,
                    batch, input_folders, bar >>

\* Mutant: the loop's exit goes on to finalization without resolving the
\* outstanding tasks
GetOutstanding_NoWait ==
    /\ pc = "get"
    /\ pc' = "seal_log"
    /\ UNCHANGED << inputs, counters, lists, pool, stores, artifacts, finals,
                    batch, input_folders, bar >>

\* ray.get(not_ready): blocks until all of them are done, raises if one raised
GetOutstanding ==
    /\ pc = "get"
    /\ Done(not_ready) = not_ready
    /\ IF \E t \in not_ready : status[t] = "raised"
       THEN pc' = "raised" /\ cause' = "task exception in ray.get"
       ELSE pc' = "seal_log" /\ UNCHANGED cause
    /\ UNCHANGED << inputs, counters, lists, pool, stores, artifacts,
                    output_dir, report_dir, outlier_filter, metadata, summary,
                    batch, input_folders, bar >>

\* ---- finalization
\* Mutant: the failures are always counted from the log
FailedCount_LogOnly(fl, logs) ==
    Cardinality({item \in logs : item.key = "load image"})

\* len([item for item in logs if item.get("load image")]) if not failed else failed
FailedCount(fl, logs) ==
    IF fl = 0 THEN Cardinality({item \in logs : item.key = "load image"}) ELSE fl

\* Mutant: the units that wrote an entry are counted, not the entries
LogCount_Units(logs) == Cardinality({item.unit : item \in logs})

\* len(logs): the number of entries reloaded from the log
LogCount(logs) == Cardinality(logs)

\* The try block that seals the log.  io = "ok": every line runs.
\* io = "reload": write_log(finish), open or json.load raises, before
\* failed_count is bound.  io = "dump": the final open/json.dump raises.
SealLog ==
    /\ pc = "seal_log"
    /\ \E io \in {"ok", "reload", "dump"} :
          /\ failed_count' = IF io = "reload" THEN failed_count
                             ELSE FailedCount(failed, log)
          /\ log_state' = IF io = "ok" THEN "sealed" ELSE log_state
          /\ metadata' = IF io = "ok"
                         THEN [written |-> TRUE, processed |-> file_count,
                               failed |-> failed_count', log |-> LogCount(log)]
                         ELSE metadata
    /\ pc' = "null_check"
    /\ UNCHANGED << inputs, file_total, file_count, failed, lists, pool, stores,
                    table_state, temp_folder, output_dir, report_dir,
                    outlier_filter, summary, cause, batch, input_folders, bar >>

\* if file_count == failed_count: output_dir = None; report_dir = None
\* (reading failed_count while it is unbound raises)
NullCheck ==
    /\ pc = "null_check"
    /\ IF failed_count = Unbound
       THEN /\ pc' = "raised" /\ cause' = "failed_count unbound"
            /\ UNCHANGED << output_dir, report_dir >>
       ELSE /\ pc' = "seam" /\ UNCHANGED cause
            /\ output_dir' = IF file_count = failed_count THEN Null ELSE output_dir
            /\ report_dir' = IF file_count = failed_count THEN Null ELSE report_dir
    /\ UNCHANGED << inputs, counters, lists, pool, stores, artifacts,
                    outlier_filter, metadata, summary, batch, input_folders, bar >>

\* if output_dir: write_csv(output_dir, seam=True), which may raise
SeamTable ==
    /\ pc = "seam"
    /\ IF output_dir # Null
       THEN \E io \in BOOLEAN : table_state' = IF io THEN "seamed" ELSE table_state
       ELSE UNCHANGED table_state
    /\ pc' = "report"
    /\ UNCHANGED << inputs, counters, lists, pool, stores, log_state,
                    temp_folder, finals, batch, input_folders, bar >>

\* generate_report: a dict of views, nothing (False), or an exception (None)
Report ==
    /\ pc = "report"
    /\ \E reporting \in BOOLEAN :
          IF output_dir # Null /\ reporting
          THEN report_dir' \in {"views", "False", Null}
          ELSE report_dir' = Null
    /\ pc' = "filter"
    /\ UNCHANGED << inputs, counters, lists, pool, stores, artifacts,
                    output_dir, outlier_filter, metadata, summary, cause, batch,
                    input_folders, bar >>

\* filter_output: a dict of views, nothing (False), or an exception (None)
Filter ==
    /\ pc = "filter"
    /\ \E filtering \in BOOLEAN :
          IF output_dir # Null /\ filtering
          THEN outlier_filter' \in {"views", "False", Null}
          ELSE outlier_filter' = Null
    /\ pc' = "summary"
    /\ UNCHANGED << inputs, counters, lists, pool, stores, artifacts,
                    output_dir, report_dir, metadata, summary, cause, batch,
                    input_folders, bar >>

\* the summary and "Task Finished"
Summary ==
    /\ pc = "summary"
    /\ summary' = [emitted |-> TRUE, processed |-> file_count,
                   output |-> output_dir, report |-> report_dir]
    /\ pc' = "done"
    /\ UNCHANGED << inputs, counters, lists, pool, stores, artifacts,
                    output_dir, report_dir, outlier_filter, metadata, cause,
                    batch, input_folders, bar >>

Next ==
    \/ CheckInput
    \/ InitOutput
    \/ SplitInput
    \/ SubmitFolder
    \/ PollFolder
    \/ GetFolder
    \/ RemoveTemp
    \/ SendTask
    \/ PrimeWait
    \/ TrackTail
    \/ TrackWindow
    \/ TrackExit
    \/ GetOutstanding
    \/ SealLog
    \/ NullCheck
    \/ SeamTable
    \/ Report
    \/ Filter
    \/ Summary
    \/ \E i \in 1..MaxFiles : ScanTask(i)

Spec == Init /\ [][Next]_vars

\* ---- the per-file dispatch and tracking, up to finalization
FileInit == Init /\ policy = "file"

\* The steps of the coordinator: run() is one thread of control, which takes
\* its next step whenever the call it is waiting in can return
FileCoordinator ==
    \/ CheckInput
    \/ InitOutput
    \/ SendTask
    \/ PrimeWait
    \/ TrackTail
    \/ TrackWindow
    \/ TrackExit
    \/ GetOutstanding

\* The steps of the pool: a worker that is free runs the next task
Pool == \E i \in 1..MaxFiles : ScanTask(i)

FileNext ==
    \/ FileCoordinator
    \/ Pool

\* The coordinator keeps running and the pool keeps running the tasks it
\* can start (a task may still hang inside scan())
FileSpec ==
    /\ FileInit /\ [][FileNext]_vars
    /\ WF_vars(FileCoordinator)
    /\ WF_vars(Pool)

\* ------------------------------------------- benchmark() and preprocess()
\* The per-file path of the two other jobs. They share run()'s tracker
\* (PrimeWait, TrackTail, TrackWindow, TrackExit are the same code) and differ
\* in what the final ray.get blocks on: `tasks`, which the tracker overwrote
\* with the outstanding set before each windowed wait.
repeat == 99        \* benchmark: every sample is scanned 1 + repeat times

\* what a benchmark_task / preprocess_task can end with: benchmark_task lets
\* an exception of scan() escape, preprocess_task catches every exception
JobOutcomes(pol, i) ==
    IF i > MaxDeviant THEN {"returned"}
    ELSE IF pol = "benchmark" THEN {"returned", "raised", "hung"}
    ELSE {"returned", "hung"}

\* the pool runs the next task of the job
JobTask(i) ==
    /\ Runnable(i)
    /\ \E o \in JobOutcomes(policy, i) :
          /\ status' = [status EXCEPT ![i] = o]
          /\ retval' = [retval EXCEPT ![i] = "none"]
    /\ UNCHANGED << inputs, counters, lists, stores, artifacts, finals, batch,
                    pc, input_folders, submitted, bar >>

\* benchmark: the archive holds one sample, enumerated 1 + repeat times, and
\* --limit (at most MaxFiles, so that at most MaxFiles tasks are submitted)
\* replaces file_total; preprocess: an input folder of 0..MaxFiles files
JobInit ==
    /\ policy \in {"benchmark", "preprocess"}
    /\ input_exists \in IF policy = "benchmark" THEN {TRUE} ELSE BOOLEAN
    /\ avail \in IF policy = "benchmark" THEN {1 + repeat}
                 ELSE IF input_exists THEN 0..MaxFiles ELSE {0}
    /\ limit \in IF policy = "benchmark" THEN 1..MaxFiles ELSE {0}
    /\ batch = MaxBatch
    /\ pc = "start"
    /\ file_total = 0 /\ file_count = 0 /\ failed = 0
    /\ failed_count = Unbound
    /\ input_folders = << >>
    /\ submitted = 0
    /\ tasks = {} /\ ready = {} /\ not_ready = {}
    /\ bar = AddTask(1)
    /\ status = << >> /\ retval = << >>
    /\ rows = {} /\ log = {}
    /\ table_state = "none" /\ log_state = "none" /\ temp_folder = "none"
    /\ output_dir = "csv" /\ report_dir = "html" /\ outlier_filter = Null
    /\ metadata = [written |-> FALSE, processed |-> 0, failed |-> 0, log |-> 0]
    /\ summary = [emitted |-> FALSE, processed |-> 0, output |-> Null, report |-> Null]
    /\ cause = "none"

\* benchmark: file_total = count * (1 + repeat), then `file_total = limit`
\* (not clamped). preprocess: the three early returns, then the send bar
JobCheck ==
    /\ pc = "start"
    /\ IF policy = "benchmark"
       THEN /\ file_total' = IF limit # 0 THEN limit ELSE avail
            /\ bar' = AddTask(file_total')
            /\ pc' = "send"
            /\ UNCHANGED cause
       ELSE IF ~input_exists
       THEN /\ pc' = "returned" /\ cause' = "input directory not found"
            /\ UNCHANGED << file_total, bar >>
       ELSE IF avail = 0
       THEN /\ pc' = "returned" /\ cause' = "no valid input file"
            /\ file_total' = avail
            /\ UNCHANGED bar
       ELSE \E configs \in 0..1 :
               /\ file_total' = avail
               /\ IF configs = 0
                  THEN /\ pc' = "returned"
                       /\ cause' = "no preprocessing task specified"
                       /\ UNCHANGED bar
                  ELSE /\ pc' = "send"
                       /\ bar' = AddTask(file_total')
                       /\ UNCHANGED cause
    /\ UNCHANGED << inputs, file_count, failed, failed_count, lists, pool,
                    stores, artifacts, output_dir, report_dir, outlier_filter,
                    metadata, summary, batch, input_folders >>

\* Mutant: the final ray.get blocks on the tasks the last wait returned
JobGet_Ready ==
    /\ pc = "get"
    /\ Done(ready) = ready
    /\ IF \E t \in ready : status[t] = "raised"
       THEN pc' = "raised" /\ cause' = "task exception in ray.get"
       ELSE pc' = "summary" /\ UNCHANGED cause
    /\ UNCHANGED << inputs, counters, lists, pool, stores, artifacts,
                    output_dir, report_dir, outlier_filter, metadata, summary,
                    batch, input_folders, bar >>

\* one iteration of the send loop: file_count += 1; advance; .remote(...)
\* (preprocess catches a failing submission); break when the bar is finished
JobSend ==
    /\ pc = "send"
    /\ IF file_count < avail
       THEN /\ file_count' = file_count + 1
            /\ bar' = Advance(bar, 1)
            /\ \E sent \in IF policy = "preprocess" THEN BOOLEAN ELSE {TRUE} :
                  IF sent
                  THEN /\ Remote(submitted + 1)
                       /\ tasks' = tasks \cup {submitted + 1}
                  ELSE UNCHANGED << pool, tasks >>
            /\ pc' = IF bar'.finished THEN "wait" ELSE "send"
       ELSE /\ pc' = "wait"
            /\ UNCHANGED << pool, tasks, file_count, bar >>
    /\ UNCHANGED << inputs, file_total, failed, failed_count, ready, not_ready,
                    stores, artifacts, finals, batch, input_folders >>

\* ray.wait(tasks) is entered. With no task at all (every submission of
\* preprocess failed) the library either rejects the call or returns two
\* empty lists, after which the tracker's bar is created
JobWait ==
    /\ pc = "wait"
    /\ IF tasks = {}
       THEN \/ /\ pc' = "raised" /\ cause' = "ray.wait of no task"
               /\ UNCHANGED << lists, bar >>
            \/ /\ ready' = {} /\ not_ready' = {}
               /\ bar' = AddTask(file_total)
               /\ pc' = "track"
               /\ UNCHANGED << tasks, cause >>
       ELSE /\ pc' = "prime"
            /\ UNCHANGED << lists, bar, cause >>
    /\ UNCHANGED << inputs, counters, pool, stores, artifacts, output_dir,
                    report_dir, outlier_filter, metadata, summary, batch,
                    input_folders >>

\* ray.get(tasks): re-raises the exception of a task of `tasks` as soon as
\* there is one, and returns when every task of `tasks` is done
JobGet ==
    /\ pc = "get"
    /\ \/ /\ \E t \in tasks : status[t] = "raised"
          /\ pc' = "raised" /\ cause' = "task exception in ray.get"
       \/ /\ \A t \in tasks : status[t] = "returned"
          /\ pc' = "summary" /\ UNCHANGED cause
    /\ UNCHANGED << inputs, counters, lists, pool, stores, artifacts,
                    output_dir, report_dir, outlier_filter, metadata, summary,
                    batch, input_folders, bar >>

\* the summary of the job: the number of files and where the output went
JobSummary ==
    /\ pc = "summary"
    /\ summary' = [emitted |-> TRUE, processed |-> file_count,
                   output |-> IF policy = "preprocess" THEN output_dir ELSE Null,
                   report |-> Null]
    /\ pc' = "done"
    /\ UNCHANGED << inputs, counters, lists, pool, stores, artifacts,
                    output_dir, report_dir, outlier_filter, metadata, cause,
                    batch, input_folders, bar >>

JobNext ==
    \/ JobCheck
    \/ JobSend
    \/ JobWait
    \/ PrimeWait
    \/ TrackTail
    \/ TrackWindow
    \/ TrackExit
    \/ JobGet
    \/ JobSummary
    \/ \E i \in 1..MaxFiles : JobTask(i)

JobSpec == JobInit /\ [][JobNext]_vars

\* ================================================================= claims
Submitted == 1..submitted

\* C1: when finalization (the sealing of the log) starts, under either
\* policy, at least one task was submitted and no submitted task is still
\* outstanding: the completed tasks are exactly the submitted ones.
C1_DrainComplete ==
    pc = "seal_log" => submitted >= 1 /\ Done(Submitted) = Submitted

\* C1 witness: a per-file job that went through a windowed wait starts
\* finalization.
C1_Witness ==
    /\ pc = "seal_log" /\ policy = "file"
    /\ submitted > eta_step
    /\ Cardinality(ready) = eta_step

\* ---- C2
LimitApplies == input_exists /\ limit # 0 /\ limit < avail

RECURSIVE SumSeq(_)
SumSeq(q) == IF q = << >> THEN 0 ELSE Head(q) + SumSeq(Tail(q))

\* the units whose scoring raised and was caught inside the task
Raising == {t \in Submitted : retval[t] = "None"}

\* the batch tasks that returned a non-empty list of records
Scored == {t \in Submitted : retval[t] = "records"}

C3_TaskErrorsNeverSurface ==
    /\ \A t \in Submitted : status[t] # "raised"
    /\ cause # "task exception in ray.get"

\* ---- C4
\* C4 as stated: when every submitted unit's scoring raised, at the summary
\* the failed count is the total and the table and report references are
\* null.
C4_AllFailedNulled ==
    (summary.emitted /\ Raising = Submitted) =>
        /\ failed_count = file_total
        /\ summary.output = Null
        /\ summary.report = Null

\* ---- C5
\* C5 as stated: a per-file job whose log was sealed recorded processed = n
\* and failed = k, the number of units whose scoring raised.
C5_FailedIsRaised ==
    (policy = "file" /\ metadata.written) =>
        /\ metadata.processed = submitted
        /\ metadata.failed = Cardinality(Raising)

\* ---- C6
TaskErrors(t) == {e \in log : e.unit = t /\ e.key = "task error"}
RowsOf(t) == {r \in rows : r.unit = t}

\* C6 as stated: per-file, a unit whose scoring raised has one task-error
\* entry and no row, a unit whose scoring did not raise has one row, and
\* when the drain is over the table has n - k rows and the log k task-error
\* entries.
C6_Contributions ==
    policy = "file" =>
        /\ \A t \in Raising :
              Cardinality(TaskErrors(t)) = 1 /\ RowsOf(t) = {}
        /\ \A t \in Done(Submitted) \ Raising :
              Cardinality(RowsOf(t)) = 1 /\ TaskErrors(t) = {}
        /\ (pc = "seal_log" =>
              /\ Cardinality(rows) = submitted - Cardinality(Raising)
              /\ Cardinality({e \in log : e.key = "task error"}) = Cardinality(Raising))

\* ---- C7
\* C7: per-file, the displayed progress never exceeds the total, and no
\* step of the tracking loop lowers it.
C7_ProgressMonotone ==
    /\ [](policy = "file" => bar.completed <= bar.total)
    /\ [][pc = "track" => bar'.completed >= bar.completed]_vars

\* C7 witness: the tracker has advanced by one window and is not at the
\* total yet.
C7_Witness ==
    /\ policy = "file" /\ pc = "track"
    /\ bar.completed = eta_step /\ ~bar.finished

\* ---- C8
\* C8: per-batch, neither the advanced progress nor file_count ever exceeds
\* the total.
C8_BatchProgressBounded ==
    policy = "batch" => bar.completed <= file_total /\ file_count <= file_total

\* C8 witness: the last batch was partial and its advance was clipped (4
\* files in batches of 3: batch became 1).
C8_Witness ==
    /\ policy = "batch" /\ pc = "seal_log"
    /\ file_total = 4 /\ submitted = 2 /\ batch = 1
    /\ file_count = file_total /\ bar.completed = file_total

C10_TempRemoved ==
    (policy = "batch" /\ pc \in {"done", "raised"}) => temp_folder # "present"

\* ---- C11
InputError == ~input_exists \/ ClampTotal(avail, limit) = 0

\* C11: when the input directory is missing or the limit-clamped total of
\* matching files is 0, under either policy the job ends at the input checks:
\* it has submitted no task and created neither the table, nor the log, nor
\* a temporary batch directory; and a job ends there for no other reason.
C11_InputErrorNoArtifacts ==
    /\ (InputError /\ pc # "start") =>
          /\ pc = "returned"
          /\ submitted = 0 /\ rows = {} /\ log = {}
          /\ table_state = "none" /\ log_state = "none" /\ temp_folder = "none"
          /\ ~summary.emitted
    /\ (pc = "returned") => InputError

\* C11 witness: a per-batch job whose input directory exists and holds no
\* matching file has ended, a limit being set.
C11_Witness ==
    /\ pc = "returned" /\ policy = "batch"
    /\ input_exists /\ avail = 0 /\ limit # 0
    /\ cause = "no valid input"

\* ---- C12
\* C12 as stated: a job that reached finalization never ends without its
\* summary: a failure of the sealing of the log, of the seam, of the report
\* or of the filter is caught, and the job goes on to the summary (run()
\* is left by an exception only while the tasks are being awaited).
C12_FinalizationNeverAborts ==
    pc = "raised" => cause = "task exception in ray.get"

\* ---- C13
LogOf(t) == {e \in log : e.unit = t}

\* C13 as stated: every job that submitted a task has sealed its log when it
\* ends; the log is sealed only when every submitted task has completed;
\* once sealed it stays sealed (it is sealed once) and no entry is appended.
C13_SealedOnceAfterDrain ==
    /\ []((pc \in {"done", "raised"} /\ submitted >= 1) => log_state = "sealed")
    /\ [](log_state = "sealed" => Done(Submitted) = Submitted)
    /\ [][log_state = "sealed" => log_state' = "sealed" /\ log' = log]_vars

\* ---- C14
\* C14 as stated: every job that submitted a task has seamed its table when
\* it ends (the table is not left in its open shape), and the table is
\* seamed only when every submitted task has completed, once, no row being
\* appended afterwards.
C14_SeamedOnceAfterDrain ==
    /\ []((pc \in {"done", "raised"} /\ submitted >= 1) => table_state = "seamed")
    /\ [](table_state = "seamed" => Done(Submitted) = Submitted)
    /\ [][table_state = "seamed" => table_state' = "seamed" /\ rows' = rows]_vars

\* ---- C15
\* the submitted tasks that have not completed
InFlight == {t \in Submitted : status[t] \in {"pending", "hung"}}

\* C15: per-batch, at most one task is in flight at any time, and a batch
\* is submitted only when every batch submitted before it has completed.
C15_OneBatchInFlight ==
    /\ [](policy = "batch" => Cardinality(InFlight) <= 1)
    /\ [][(policy = "batch" /\ submitted' > submitted) =>
              /\ Done(Submitted) = Submitted
              /\ submitted' = submitted + 1]_vars

\* C15 witness: the third batch is in flight, the two before it completed.
C15_Witness ==
    /\ policy = "batch" /\ pc = "wait_folder"
    /\ submitted = 3 /\ InFlight = {3}
    /\ input_folders # << >>

\* ---- C16
\* the submitted tasks whose engine call never returns
Hung == {t \in Submitted : status[t] = "hung"}

\* the poll-and-sleep loop turns for ever: the batch in flight is hung
StuckInPoll == pc = "wait_folder" /\ tasks # {} /\ tasks \subseteq Hung

\* the priming wait never returns: every submitted task is hung
StuckInPrime == pc = "prime" /\ tasks # {} /\ tasks \subseteq Hung

\* a windowed wait never returns: fewer than eta_step of the outstanding
\* tasks can ever complete
StuckInWindow ==
    /\ pc = "track" /\ ~bar.finished
    /\ Cardinality(not_ready) >= eta_step
    /\ Cardinality(not_ready \ Hung) < eta_step

\* C16 as stated: whichever submitted units hang, the coordinator is never
\* held for ever in the per-batch poll-and-sleep loop, in the priming wait
\* or in a windowed wait of the tracker.
C16_OnlyDrainBlocks == ~(StuckInPoll \/ StuckInPrime \/ StuckInWindow)

\* ---- C17
\* unit t's rows and log entries are those scan_task writes for t alone
\* under one outcome o of its scoring
Contributed(t, o) ==
    /\ status[t] = TaskStatus(o) /\ retval[t] = TaskReturn(o)
    /\ RowsOf(t) = TaskRows(policy, t, o)
    /\ LogOf(t) = TaskLog(policy, t, o)

\* C17: in whatever order the tasks complete, the table and the log hold, for
\* each unit that has run, exactly what scan_task writes for that unit under
\* its own outcome, and nothing for a unit that has not run (so at seal time
\* they are the union of the units' contributions); and no step removes a
\* row or an entry, or adds one for a unit that has already run.
C17_OrderAgnostic ==
    /\ [](/\ \A t \in Submitted :
                IF status[t] = "pending"
                THEN RowsOf(t) = {} /\ LogOf(t) = {}
                ELSE \E o \in Outcomes(policy, t) : Contributed(t, o)
           /\ \A r \in rows : r.unit \in Submitted
           /\ \A e \in log : e.unit \in Submitted)
    /\ [][/\ rows \subseteq rows' /\ log \subseteq log'
          /\ \A r \in rows' \ rows : status[r.unit] = "pending"
          /\ \A e \in log' \ log : status[e.unit] = "pending"]_vars

\* C17 witness: per-file, the second unit has written its row while the
\* first, submitted before it, has not run yet.
C17_Witness ==
    /\ policy = "file" /\ submitted >= 3
    /\ status[1] = "pending" /\ status[2] = "returned"
    /\ rows # {} /\ rows = RowsOf(2)

\* ---- C18
\* C18 as stated: per-file, the entry count of the sealed log never exceeds
\* the number of submitted units.
C18_Original ==
    (policy = "file" /\ metadata.written) => metadata.log <= submitted

\* C18 amended: per-file, the entry count of the sealed log is the number
\* of entries the tasks appended: exactly one for each unit whose scoring
\* raised, and for a unit whose scoring returned the diagnostic entries of
\* its record, however many; it does not exceed the number of submitted
\* units when no unit appended more than one entry.
C18_LogCount ==
    (policy = "file" /\ metadata.written) =>
        /\ metadata.log = Cardinality(log)
        /\ \A t \in Raising : Cardinality(LogOf(t)) = 1
        /\ \A t \in Submitted \ Raising :
              \A e \in LogOf(t) : e.key # "task error"
        /\ ((\A t \in Submitted : Cardinality(LogOf(t)) <= 1) =>
              metadata.log <= submitted)

\* C18 witness: a sealed per-file log of two units, the first of which
\* appended two diagnostic entries and the second none.
C18_Witness ==
    /\ policy = "file" /\ metadata.written
    /\ submitted = 2 /\ metadata.log = 2
    /\ Cardinality(LogOf(1)) = 2

\* ---- C19
\* the coordinator's position, bar and task lists
tracker == << pc, bar, tasks, ready, not_ready >>

\* C19: the priming wait returns one completed task and leaves the others
\* outstanding; then each turn of the tracking loop, while the bar is not
\* finished, either (fewer than eta_step outstanding) sets the progress to
\* the total at once, waiting for nothing, or (otherwise) returns exactly
\* eta_step completed tasks out of the outstanding ones and advances the
\* progress by their number; the loop is left for the final resolve as soon
\* as the bar is finished, and the resolve returns only when every
\* outstanding task has completed.
C19_TwoPhaseTracker ==
    /\ [][(pc = "prime" /\ tracker' # tracker) =>
              /\ pc' = "track"
              /\ Cardinality(ready') = 1 /\ ready' \subseteq Done(tasks)
              /\ not_ready' = tasks \ ready'
              /\ bar' = AddTask(file_total)]_vars
    /\ [][(pc = "track" /\ tracker' # tracker) =>
              IF bar.finished
              THEN pc' = "get" /\ bar' = bar /\ not_ready' = not_ready
              ELSE IF Cardinality(not_ready) < eta_step
              THEN /\ bar'.completed = bar.total /\ bar'.finished
                   /\ pc' = "track" /\ not_ready' = not_ready
              ELSE /\ Cardinality(ready') = eta_step
                   /\ ready' \subseteq Done(not_ready)
                   /\ not_ready' = not_ready \ ready'
                   /\ bar'.completed = bar.completed + Cardinality(ready')
                   /\ pc' = "track"]_vars
    /\ [][(pc = "get" /\ tracker' # tracker) => Done(not_ready) = not_ready]_vars

\* C19 witness: 11 files: one primed, one window of eta_step, then the
\* progress set to the total, and the loop left for the final resolve.
C19_Witness ==
    /\ policy = "file" /\ pc = "get"
    /\ submitted = eta_step + 1 /\ Cardinality(ready) = eta_step
    /\ not_ready = {} /\ bar.completed = file_total

\* ---- C20
\* the entries of the log that carry the failure marker
Marked == {e \in log : e.key = "load image"}

\* C20: the failed count bound at finalization, and recorded in the sealed
\* log, is the count the per-batch loop tracked when that count is not zero,
\* and otherwise the number of log entries carrying the failure marker;
\* per-file nothing is tracked, so it is always the number of marked
\* entries, whatever exceptions the tasks raised.
C20_FailedCountSource ==
    /\ (failed_count # Unbound =>
          failed_count = IF failed # 0 THEN failed ELSE Cardinality(Marked))
    /\ (metadata.written => metadata.failed = failed_count)
    /\ (policy = "file" =>
          /\ failed = 0
          /\ (failed_count # Unbound => failed_count = Cardinality(Marked)))

\* C20 witness: a per-batch job of two batches, the first of which failed,
\* has sealed its log with the tracked count.
C20_Witness ==
    /\ policy = "batch" /\ metadata.written
    /\ submitted = 2 /\ retval[1] = "None" /\ retval[2] = "records"
    /\ failed = batch /\ metadata.failed = failed /\ Marked = {}

\* ---- C21
\* C21 as stated: in every job, under either policy, when the table
\* reference of the summary is null no submitted unit contributed a row to
\* the table.
C21_NulledOnlyIfNoRows ==
    (summary.emitted /\ summary.output = Null) => rows = {}

\* ---- C22
\* C22 as stated: every row of the table, whichever branch of the task
\* appended it, has had the normalization (fix_filepath) and the path
\* reconstruction (reconstruct_filepath) applied, and the diagnostic entries
\* of its record are in the log whenever the row is in the table.
C22_TransformedAndLogged ==
    \A r \in rows :
        /\ r.fixed /\ r.reconstructed
        /\ \E o \in Outcomes(policy, r.unit) :
              /\ r \in TaskRows(policy, r.unit, o)
              /\ TaskLog(policy, r.unit, o) \subseteq log

\* ---- C23
\* C23: per-file, while the tracker's bar is not finished the displayed
\* progress is below the number of completed tasks (the primed task is
\* never counted); once the bar is finished, fewer than eta_step tasks are
\* outstanding, in the tracker's list and in the pool.
C23_DisplayLags ==
    policy = "file" =>
        /\ (pc = "track" /\ ~bar.finished =>
              /\ bar.completed < Cardinality(Done(Submitted))
              /\ bar.completed = Cardinality(Submitted \ not_ready) - 1)
        /\ (pc \in {"track", "get"} /\ bar.finished =>
              /\ bar.completed = file_total
              /\ Cardinality(not_ready) <= eta_step - 1
              /\ Cardinality(InFlight) <= eta_step - 1)

\* C23 witness: the progress was forced to the total while eta_step - 1
\* tasks had not completed.
C23_Witness ==
    /\ policy = "file" /\ pc = "track" /\ bar.finished
    /\ Cardinality(InFlight) = eta_step - 1

\* ---- C24
\* C24: per-file, for every number of submitted tasks, once the coordinator
\* is at the priming wait, if no task hangs the tracking loop is left and
\* the final resolve returns: the job reaches finalization when every task
\* returned, and run() is left by the resolve's exception only when a task
\* ended with one.
C24_TrackerTerminates ==
    /\ (policy = "file" /\ pc = "prime") ~>
          (pc \in {"seal_log", "raised"} \/ Hung # {})
    /\ []((policy = "file" /\ pc = "raised" /\ cause = "task exception in ray.get") =>
            \E t \in Submitted : status[t] = "raised")

\* C24 witness: 11 tasks, all returned: after the one window nothing was
\* outstanding with the progress at 10 of 11, and finalization is reached.
C24_Witness ==
    /\ policy = "file" /\ pc = "seal_log"
    /\ submitted = eta_step + 1 /\ not_ready = {}
    /\ \A t \in Submitted : status[t] = "returned"

\* ---- C25
\* C25 as stated: per-batch, in every state the processed count plus the
\* tracked failed count is at most the total, and so is the failed count
\* alone.
C25_CountedOnce ==
    policy = "batch" =>
        /\ file_count + failed <= file_total
        /\ failed <= file_total

\* C26: in the benchmark and preprocess jobs, whose final ray.get blocks on
\* `tasks` (overwritten with the outstanding set before each windowed wait),
\* every submitted task has completed before the summary is emitted, for
\* every number n >= 1 of submitted tasks: once the final ray.get has
\* returned, no submitted task is pending or hung
C26_DrainCoversAll ==
    (pc \in {"summary", "done"} \/ summary.emitted) =>
        \A t \in Submitted : status[t] \in {"returned", "raised"}

\* eleven tasks: one windowed wait has overwritten `tasks` with the ten
\* tasks outstanding after the priming wait, and the summary is out
C26_Witness ==
    /\ policy \in {"benchmark", "preprocess"}
    /\ summary.emitted
    /\ submitted = eta_step + 1
    /\ Cardinality(tasks) = eta_step
    /\ not_ready = {}

====
